---- MODULE Spec2Model ----
(***************************************************************************)
(* Model of the tracking request pipeline of src/tracker.py: the           *)
(* user-agent classifier, client IP resolution, geo enrichment with the    *)
(* derived map URL, record assembly, the load / append / save cycle on the *)
(* visits storage, and the two handlers track_click and image_tracker.     *)
(*                                                                         *)
(* Python strings are sequences of one-character strings, so that          *)
(* lower(), split(), strip(), "in" and float() are computed on characters. *)
(***************************************************************************)
EXTENDS Integers, Sequences, FiniteSets

(***************************************************************************)
(* String literals of the source, and user-agent texts used as inputs.     *)
(***************************************************************************)
s_edg == <<"e", "d", "g">>
s_opr == <<"o", "p", "r">>
s_opera == <<"o", "p", "e", "r", "a">>
s_chrome == <<"c", "h", "r", "o", "m", "e">>
s_safari == <<"s", "a", "f", "a", "r", "i">>
s_edge == <<"e", "d", "g", "e">>
s_firefox == <<"f", "i", "r", "e", "f", "o", "x">>
s_windows == <<"w", "i", "n", "d", "o", "w", "s">>
s_android == <<"a", "n", "d", "r", "o", "i", "d">>
s_iphone == <<"i", "p", "h", "o", "n", "e">>
s_ipad == <<"i", "p", "a", "d">>
s_ios == <<"i", "o", "s">>
s_mac_os_x == <<"m", "a", "c", " ", "o", "s", " ", "x">>
s_macintosh == <<"m", "a", "c", "i", "n", "t", "o", "s", "h">>
s_linux == <<"l", "i", "n", "u", "x">>
s_maps_prefix == <<"h", "t", "t", "p", "s", ":", "/", "/", "w", "w", "w", ".", "g", "o",
    "o", "g", "l", "e", ".", "c", "o", "m", "/", "m", "a", "p", "s", "?", "q", "=">>
s_placeholder == <<"h", "t", "t", "p", "s", ":", "/", "/", "v", "i", "a", ".", "p", "l",
    "a", "c", "e", "h", "o", "l", "d", "e", "r", ".", "c", "o", "m", "/", "8", "0", "0",
    "x", "5", "0", "0", ".", "p", "n", "g", "?", "t", "e", "x", "t", "=", "I", "m", "a",
    "g", "e">>
s_nan == <<"n", "a", "n">>
s_inf == <<"i", "n", "f">>
s_infinity == <<"i", "n", "f", "i", "n", "i", "t", "y">>
ua_ChromeWindows == <<"M", "o", "z", "i", "l", "l", "a", "/", "5", ".", "0", " ", "(", "W",
    "i", "n", "d", "o", "w", "s", " ", "N", "T", " ", "1", "0", ".", "0", ")", " ", "A",
    "p", "p", "l", "e", "W", "e", "b", "K", "i", "t", "/", "5", "3", "7", ".", "3", "6",
    " ", "(", "K", "H", "T", "M", "L", ",", " ", "l", "i", "k", "e", " ", "G", "e", "c",
    "k", "o", ")", " ", "C", "h", "r", "o", "m", "e", "/", "9", "9", ".", "0", " ", "S",
    "a", "f", "a", "r", "i", "/", "5", "3", "7", ".", "3", "6">>
ua_iPhone == <<"M", "o", "z", "i", "l", "l", "a", "/", "5", ".", "0", " ", "(", "i", "P",
    "h", "o", "n", "e", ";", " ", "C", "P", "U", " ", "i", "P", "h", "o", "n", "e", " ",
    "O", "S", " ", "1", "5", "_", "0", " ", "l", "i", "k", "e", " ", "M", "a", "c", " ",
    "O", "S", " ", "X", ")", " ", "A", "p", "p", "l", "e", "W", "e", "b", "K", "i", "t",
    "/", "6", "0", "5", ".", "1", ".", "1", "5">>
ua_OperaMac == <<"O", "p", "e", "r", "a", "/", "9", ".", "8", "0", " ", "(", "M", "a", "c",
    "i", "n", "t", "o", "s", "h", ";", " ", "I", "n", "t", "e", "l", " ", "M", "a", "c",
    " ", "O", "S", " ", "X", ")">>
ua_SafariIpad == <<"M", "o", "z", "i", "l", "l", "a", "/", "5", ".", "0", " ", "(", "i",
    "P", "a", "d", ")", " ", "V", "e", "r", "s", "i", "o", "n", "/", "1", "5", ".", "0",
    " ", "S", "a", "f", "a", "r", "i", "/", "6", "0", "4", ".", "1">>
ua_Curl == <<"c", "u", "r", "l", "/", "8", ".", "0">>
ua_iOSApp == <<"M", "y", "A", "p", "p", "/", "1", ".", "0", " ", "i", "O", "S", "/", "1",
    "5">>
f_Edg == <<"E", "d", "g">>
f_e == <<"e">>
f_OPR == <<"O", "P", "R">>
f_Chrome == <<"C", "h", "r", "o", "m", "e">>
f_Safari == <<"S", "a", "f", "a", "r", "i">>
f_Firefox == <<"F", "i", "r", "e", "f", "o", "x">>
f_Windows == <<"W", "i", "n", "d", "o", "w", "s">>
f_Android == <<"A", "n", "d", "r", "o", "i", "d">>
f_iPhone == <<"i", "P", "h", "o", "n", "e">>
f_Linux == <<"L", "i", "n", "u", "x">>
UpperLetters == <<"A", "B", "C", "D", "E", "F", "G", "H", "I", "J", "K", "L", "M", "N", "O", "P", "Q", "R", "S", "T", "U", "V", "W", "X", "Y", "Z">>
LowerLetters == <<"a", "b", "c", "d", "e", "f", "g", "h", "i", "j", "k", "l", "m", "n", "o", "p", "q", "r", "s", "t", "u", "v", "w", "x", "y", "z">>

(***************************************************************************)
(* Python values.  Every value carries its type tag, as isinstance sees.   *)
(* A float is finite (h = its value in hundredths), nan, inf or -inf.      *)
(***************************************************************************)
PyNone == [t |-> "None"]

PyStr(s) == [t |-> "str", s |-> s]

PyInt(i) == [t |-> "int", i |-> i]

PyBool(b) == [t |-> "bool", b |-> b]

PyFloat(k, h) == [t |-> "float", k |-> k, h |-> h]

\* Python truthiness of an optional string: None and "" are falsy.
Truthy(v) == v.t = "str" /\ Len(v.s) > 0

(***************************************************************************)
(* str methods used by the source.                                         *)
(***************************************************************************)
ToLower(c) ==
    IF \E i \in 1..Len(UpperLetters) : UpperLetters[i] = c
    THEN LowerLetters[CHOOSE i \in 1..Len(UpperLetters) : UpperLetters[i] = c]
    ELSE c

\* s.lower()
Lower(s) == [i \in 1..Len(s) |-> ToLower(s[i])]

\* pat in s
Contains(s, pat) ==
    \E i \in 1..(Len(s) - Len(pat) + 1) : SubSeq(s, i, i + Len(pat) - 1) = pat

(***************************************************************************)
(* _parse_user_agent                                                       *)
(***************************************************************************)
\* ua_lower = ua.lower()
ua_lower(ua) == Lower(ua.s)

\* if not ua
ua_missing_NoneOnly(ua) == ua.t = "None"

ua_missing(ua) == ~Truthy(ua)

\* Browser detection (order matters)
detect_browser_ChromeFirst(l) ==
    IF Contains(l, s_chrome) /\ Contains(l, s_safari) /\ ~Contains(l, s_edge)
    THEN "Chrome"
    ELSE IF Contains(l, s_edg) THEN "Edge"
    ELSE IF Contains(l, s_opr) \/ Contains(l, s_opera) THEN "Opera"
    ELSE IF Contains(l, s_firefox) THEN "Firefox"
    ELSE IF Contains(l, s_safari) /\ ~Contains(l, s_chrome) THEN "Safari"
    ELSE "Other"

detect_browser(l) ==
    IF Contains(l, s_edg) THEN "Edge"
    ELSE IF Contains(l, s_opr) \/ Contains(l, s_opera) THEN "Opera"
    ELSE IF Contains(l, s_chrome) /\ Contains(l, s_safari) /\ ~Contains(l, s_edge)
    THEN "Chrome"
    ELSE IF Contains(l, s_firefox) THEN "Firefox"
    ELSE IF Contains(l, s_safari) /\ ~Contains(l, s_chrome) THEN "Safari"
    ELSE "Other"

\* OS detection
detect_os(l) ==
    IF Contains(l, s_windows) THEN "Windows"
    ELSE IF Contains(l, s_android) THEN "Android"
    ELSE IF Contains(l, s_iphone) \/ Contains(l, s_ipad) \/ Contains(l, s_ios) THEN "iOS"
    ELSE IF Contains(l, s_mac_os_x) \/ Contains(l, s_macintosh) THEN "macOS"
    ELSE IF Contains(l, s_linux) THEN "Linux"
    ELSE "Other"

_parse_user_agent(ua) ==
    IF ua_missing(ua)
    THEN [browser |-> "Unknown", os |-> "Unknown"]
    ELSE [browser |-> detect_browser(ua_lower(ua)), os |-> detect_os(ua_lower(ua))]

(***************************************************************************)
(* Client IP resolution (track_click lines 67-69, image_tracker 130-132).  *)
(* An absent header, and an absent remote address, is PyNone.              *)
(***************************************************************************)
IsSpace(c) == c \in {" ", "\t", "\n", "\r"}

\* s.strip()
RECURSIVE LStrip(_)
LStrip(s) == IF s # <<>> /\ IsSpace(Head(s)) THEN LStrip(Tail(s)) ELSE s

RECURSIVE RStrip(_)
RStrip(s) ==
    IF s # <<>> /\ IsSpace(s[Len(s)]) THEN RStrip(SubSeq(s, 1, Len(s) - 1)) ELSE s

Strip(s) == RStrip(LStrip(s))

\* s.split(",")[0]: the characters before the first comma (all of s without one)
SplitFirst(s) ==
    IF \E i \in 1..Len(s) : s[i] = ","
    THEN SubSeq(s, 1, (CHOOSE i \in 1..Len(s) :
                          s[i] = "," /\ \A j \in 1..(i - 1) : s[j] # ",") - 1)
    ELSE s

\* request.headers.get("X-Forwarded-For", request.remote_addr)
headers_get_xff(xff, remote_addr) == IF xff.t = "None" THEN remote_addr ELSE xff

\* ip = ...; if ip and "," in ip: ip = ip.split(",")[0].strip()
resolve_ip(xff, remote_addr) ==
    LET ip == headers_get_xff(xff, remote_addr)
    IN  IF Truthy(ip) /\ Contains(ip.s, <<",">>)
        THEN PyStr(Strip(SplitFirst(ip.s)))
        ELSE ip

(***************************************************************************)
(* float(x) and the text of a float in an f-string.                        *)
(***************************************************************************)
DigitChars == <<"0", "1", "2", "3", "4", "5", "6", "7", "8", "9">>

IsDigit(c) == \E i \in 1..Len(DigitChars) : DigitChars[i] = c

DigitVal(c) == (CHOOSE i \in 1..Len(DigitChars) : DigitChars[i] = c) - 1

AllDigits(s) == \A i \in 1..Len(s) : IsDigit(s[i])

RECURSIVE DigitsVal(_)
DigitsVal(s) ==
    IF s = <<>> THEN 0 ELSE 10 * DigitsVal(SubSeq(s, 1, Len(s) - 1)) + DigitVal(s[Len(s)])

RECURSIVE NatRepr(_)
NatRepr(n) ==
    IF n < 10 THEN <<DigitChars[n + 1]>> ELSE NatRepr(n \div 10) \o <<DigitChars[(n % 10) + 1]>>

PyRaise(exc) == [t |-> "raise", exc |-> exc]

\* The unsigned body of a float literal: digits, digits.digits, digits. or .digits,
\* with at most two fraction digits (the inputs have no more); else no number.
ParseUnsigned(b) ==
    LET dots == {i \in 1..Len(b) : b[i] = "."}
    IN  IF dots = {}
        THEN IF b # <<>> /\ AllDigits(b)
             THEN PyFloat("fin", 100 * DigitsVal(b))
             ELSE PyRaise("ValueError")
        ELSE LET d  == CHOOSE i \in dots : TRUE
                 ip == SubSeq(b, 1, d - 1)
                 fp == SubSeq(b, d + 1, Len(b))
             IN  IF Cardinality(dots) = 1 /\ AllDigits(ip) /\ AllDigits(fp)
                    /\ Len(ip) + Len(fp) > 0 /\ Len(fp) <= 2
                 THEN PyFloat("fin", 100 * DigitsVal(ip)
                                 + (IF Len(fp) = 1 THEN 10 * DigitsVal(fp) ELSE DigitsVal(fp)))
                 ELSE PyRaise("ValueError")

\* float(str): surrounding whitespace is ignored, then an optional sign, then
\* a number, or nan / inf / infinity in any letter case.
ParseFloat(s) ==
    LET w    == Strip(s)
        neg  == w # <<>> /\ Head(w) = "-"
        body == IF w # <<>> /\ Head(w) \in {"-", "+"} THEN Tail(w) ELSE w
        u    == ParseUnsigned(body)
    IN  IF Lower(body) = s_nan THEN PyFloat("nan", 0)
        ELSE IF Lower(body) \in {s_inf, s_infinity}
        THEN PyFloat(IF neg THEN "-inf" ELSE "inf", 0)
        ELSE IF u.t = "float" /\ neg THEN PyFloat("fin", 0 - u.h)
        ELSE u

\* float(x)
to_float(x) ==
    CASE x.t = "float" -> x
      [] x.t = "int"   -> PyFloat("fin", 100 * x.i)
      [] x.t = "bool"  -> PyFloat("fin", IF x.b THEN 100 ELSE 0)
      [] x.t = "str"   -> ParseFloat(x.s)
      [] OTHER         -> PyRaise("TypeError")

\* f"{x}" of a float x
FloatRepr(x) ==
    CASE x.k = "nan"  -> s_nan
      [] x.k = "inf"  -> s_inf
      [] x.k = "-inf" -> <<"-">> \o s_inf
      [] OTHER ->
           LET a  == IF x.h < 0 THEN 0 - x.h ELSE x.h
               fr == a % 100
           IN  (IF x.h < 0 THEN <<"-">> ELSE <<>>)
                   \o NatRepr(a \div 100) \o <<".">>
                   \o (IF fr % 10 = 0
                       THEN NatRepr(fr \div 10)
                       ELSE <<DigitChars[(fr \div 10) + 1], DigitChars[(fr % 10) + 1]>>)

(***************************************************************************)
(* Geo enrichment (track_click lines 71-84, image_tracker 134-145).        *)
(***************************************************************************)
PyDict(d) == [t |-> "dict", d |-> d]

EmptyDict == [k \in {} |-> PyNone]

\* d.get(k)
dict_get(d, k) == IF k \in DOMAIN d THEN d[k] ELSE PyNone

\* geo_lookup(ip, ip_api) or {}
geo_or_empty_NoDefault(g) == g

geo_or_empty(g) == IF g.t = "dict" /\ DOMAIN g.d # {} THEN g ELSE PyDict(EmptyDict)

\* isinstance(x, (int, float)); bool is a subclass of int
is_int_or_float(x) == x.t \in {"int", "float", "bool"}

\* lines 76-84 of track_click
track_click_maps_url(lat, lon) ==
    IF is_int_or_float(lat) \/ is_int_or_float(lon)
    THEN LET lat_f == to_float(lat)
             lon_f == to_float(lon)
         IN  IF lat_f.t = "raise" \/ lon_f.t = "raise"
             THEN PyNone
             ELSE PyStr(s_maps_prefix \o FloatRepr(lat_f) \o <<",">> \o FloatRepr(lon_f))
    ELSE PyNone

\* lines 138-145 of image_tracker
image_tracker_maps_url_BothNumeric(lat, lon) ==
    IF is_int_or_float(lat) /\ is_int_or_float(lon)
    THEN PyStr(s_maps_prefix \o FloatRepr(to_float(lat)) \o <<",">> \o FloatRepr(to_float(lon)))
    ELSE PyNone

image_tracker_maps_url(lat, lon) ==
    IF is_int_or_float(lat) \/ is_int_or_float(lon)
    THEN LET lat_f == to_float(lat)
             lon_f == to_float(lon)
         IN  IF lat_f.t = "raise" \/ lon_f.t = "raise"
             THEN PyNone
             ELSE PyStr(s_maps_prefix \o FloatRepr(lat_f) \o <<",">> \o FloatRepr(lon_f))
    ELSE PyNone

(***************************************************************************)
(* Record assembly.  rq is the request (token, xff, remote_addr, ua, arg), *)
(* g the outcome of geo_lookup, now the clock reading that isoformat()     *)
(* turns into the time field.  The result is the record, or the exception  *)
(* that .get raises on a geo that is no dict.                              *)
(***************************************************************************)
PyOk(v) == [t |-> "ok", v |-> v]

\* track_click lines 67-103
track_click_record(rq, g, now) ==
    LET ip      == resolve_ip(rq.xff, rq.remote_addr)
        geo     == geo_or_empty(g)
        ua_info == _parse_user_agent(rq.ua)
    IN  IF geo.t # "dict"
        THEN PyRaise("AttributeError")
        ELSE LET lat == dict_get(geo.d, "lat")
                 lon == dict_get(geo.d, "lon")
             IN  PyOk([time            |-> now,
                       ip              |-> ip,
                       country         |-> dict_get(geo.d, "country"),
                       region          |-> dict_get(geo.d, "regionName"),
                       city            |-> dict_get(geo.d, "city"),
                       lat             |-> lat,
                       lon             |-> lon,
                       isp             |-> dict_get(geo.d, "isp"),
                       token           |-> rq.token,
                       user_agent      |-> rq.ua,
                       browser         |-> ua_info.browser,
                       os              |-> ua_info.os,
                       google_maps_url |-> track_click_maps_url(lat, lon)])

\* image_tracker lines 130-164
image_tracker_record(rq, g, now) ==
    LET ip      == resolve_ip(rq.xff, rq.remote_addr)
        geo     == geo_or_empty(g)
        ua_info == _parse_user_agent(rq.ua)
    IN  IF geo.t # "dict"
        THEN PyRaise("AttributeError")
        ELSE LET lat == dict_get(geo.d, "lat")
                 lon == dict_get(geo.d, "lon")
             IN  PyOk([time            |-> now,
                       ip              |-> ip,
                       country         |-> dict_get(geo.d, "country"),
                       region          |-> dict_get(geo.d, "regionName"),
                       city            |-> dict_get(geo.d, "city"),
                       lat             |-> lat,
                       lon             |-> lon,
                       isp             |-> dict_get(geo.d, "isp"),
                       token           |-> rq.token,
                       user_agent      |-> rq.ua,
                       browser         |-> ua_info.browser,
                       os              |-> ua_info.os,
                       google_maps_url |-> image_tracker_maps_url(lat, lon)])

(***************************************************************************)
(* The storage collaborator (module storage): load returns what was last   *)
(* saved, in order; a successful save overwrites the whole collection; a   *)
(* failed load or save raises and leaves the stored collection as it was.  *)
(***************************************************************************)
load_visits(stored) == stored

save_visits(stored, visits) == visits

storage_after_error(stored) == stored

\* visits.append(record)
list_append_Overwrite(visits, record) == <<record>>

list_append(visits, record) == Append(visits, record)

(***************************************************************************)
(* Responses (track_click lines 109-110, image_tracker lines 170-171).     *)
(***************************************************************************)
s_default_target == <<"/">>

\* config["tracking"]["default_target_url"]
default_target == PyStr(s_default_target)

\* x or y
py_or(x, y) == IF Truthy(x) THEN x ELSE y

track_click_response(rq) == [kind |-> "redirect", url |-> py_or(rq.arg, default_target)]

image_tracker_response(rq) ==
    [kind |-> "render", template |-> "image_page.html",
     image_url |-> py_or(rq.arg, PyStr(s_placeholder))]

NoResponse == [kind |-> "none"]

(***************************************************************************)
(* One whole run of a handler with nothing interleaved and no storage      *)
(* error: the record, the collection it leaves, and the response.          *)
(***************************************************************************)
track_click(rq, g, now, stored) ==
    LET a == track_click_record(rq, g, now)
    IN  IF a.t = "raise"
        THEN [t |-> "error", stored |-> stored]
        ELSE [t |-> "ok", record |-> a.v,
              stored |-> save_visits(stored, list_append(load_visits(stored), a.v)),
              response |-> track_click_response(rq)]

image_tracker(rq, g, now, stored) ==
    LET a == image_tracker_record(rq, g, now)
    IN  IF a.t = "raise"
        THEN [t |-> "error", stored |-> stored]
        ELSE [t |-> "ok", record |-> a.v,
              stored |-> save_visits(stored, list_append(load_visits(stored), a.v)),
              response |-> image_tracker_response(rq)]

(***************************************************************************)
(* User-agent inputs: absent, or up to MaxFrags fragments concatenated,    *)
(* or one of the full texts above.                                         *)
(***************************************************************************)
MaxFrags == 3

UAFragments ==
    {f_Edg, f_e, f_OPR, f_Chrome, f_Safari, f_Firefox, f_Windows, f_Android, f_iPhone,
     f_Linux}

RECURSIVE Concat(_)
Concat(ss) == IF ss = <<>> THEN <<>> ELSE Head(ss) \o Concat(Tail(ss))

RECURSIVE TuplesUpTo(_, _)
TuplesUpTo(S, n) ==
    IF n = 0 THEN {<<>>}
    ELSE LET prev == TuplesUpTo(S, n - 1)
         IN  prev \cup {Append(p, x) : p \in {q \in prev : Len(q) = n - 1}, x \in S}

UATexts ==
    {Concat(fs) : fs \in TuplesUpTo(UAFragments, MaxFrags)}
        \cup {ua_ChromeWindows, ua_iPhone, ua_OperaMac, ua_SafariIpad, ua_Curl, ua_iOSApp}

UAInputs == {PyNone} \cup {PyStr(s) : s \in UATexts}

(***************************************************************************)
(* X-Forwarded-For inputs: absent, or any text of up to MaxHdrLen          *)
(* characters of an address list.  The server's header parser drops the    *)
(* whitespace that follows the colon, so a value never starts with it.     *)
(***************************************************************************)
MaxHdrLen == 4

HdrChars == {"1", ".", ",", " "}

HdrInputs ==
    {PyNone}
        \cup {PyStr(s) : s \in {x \in TuplesUpTo(HdrChars, MaxHdrLen) :
                                    x = <<>> \/ ~IsSpace(x[1])}}

\* request.remote_addr: the peer address, or None when the server gives none
RemoteInputs == {PyNone, PyStr(<<"9", ".", "9">>)}

(***************************************************************************)
(* geo_lookup outcomes: None, or a dict in which every key may be missing  *)
(* and lat / lon may be any JSON value.                                    *)
(***************************************************************************)
Absent == [t |-> "absent"]

CoordInputs ==
    {Absent, PyNone, PyInt(48), PyFloat("fin", 4885), PyFloat("fin", 235),
     PyFloat("fin", -50), PyFloat("nan", 0), PyFloat("inf", 0), PyBool(TRUE),
     PyStr(<<"2", ".", "3", "5">>), PyStr(<<"a", "b", "c">>), PyStr(<<>>)}

PlaceInputs == {Absent, PyNone, PyStr(<<"x">>)}

\* the dict with the given values, a key being left out when its value is Absent
MkGeo(lat, lon, place, isp) ==
    LET all == [k \in {"lat", "lon", "country", "regionName", "city", "isp"} |->
                   CASE k = "lat" -> lat
                     [] k = "lon" -> lon
                     [] k = "isp" -> isp
                     [] OTHER     -> place]
    IN  PyDict([k \in {x \in DOMAIN all : all[x] # Absent} |-> all[k]])

GeoInputs ==
    {PyNone}
        \cup {MkGeo(lat, lon, pl, pl) : lat \in CoordInputs, lon \in CoordInputs,
                                       pl \in {Absent, PyStr(<<"x">>)}}
        \cup {MkGeo(Absent, Absent, pl, isp) : pl \in PlaceInputs, isp \in PlaceInputs}

GeoParis ==
    MkGeo(PyFloat("fin", 4885), PyFloat("fin", 235), PyStr(<<"F", "R">>), PyStr(<<"x">>))

(***************************************************************************)
(* Requests.  arg is the next / src query parameter.                       *)
(***************************************************************************)
TokenInputs == {PyStr(<<"a">>), PyStr(<<>>)}

ArgInputs == {PyNone, PyStr(<<>>), PyStr(<<"u">>), PyStr(<<":", ":">>)}

MkRequest(token, xff, remote_addr, ua, arg) ==
    [token |-> token, xff |-> xff, remote_addr |-> remote_addr, ua |-> ua, arg |-> arg]

PlainRequest ==
    MkRequest(PyStr(<<"a">>), PyNone, PyStr(<<"9", ".", "9">>), PyStr(ua_Curl), PyNone)

\* a record already stored by an earlier run
OldRecord == track_click_record(PlainRequest, GeoParis, 0).v

(***************************************************************************)
(* Single calls: the inputs of one handler run, each family varying one    *)
(* part of the input.                                                      *)
(***************************************************************************)
MkCall(rq, g, stored) == [rq |-> rq, geo |-> g, now |-> 1, stored |-> stored]

Calls ==
    {MkCall([PlainRequest EXCEPT !.ua = ua], GeoParis, <<>>) : ua \in UAInputs}
        \cup {MkCall([PlainRequest EXCEPT !.xff = x, !.remote_addr = ra],
                      IF x = PyNone /\ ra = PyNone THEN PyNone ELSE GeoParis, <<>>) :
                  x \in HdrInputs, ra \in RemoteInputs}
        \cup {MkCall(PlainRequest, g, <<>>) : g \in GeoInputs}
        \cup {MkCall([PlainRequest EXCEPT !.token = tk, !.arg = a], g, st) :
                  tk \in TokenInputs, a \in ArgInputs, g \in {PyNone, GeoParis},
                  st \in {<<>>, <<OldRecord>>}}

(***************************************************************************)
(* State.  The first four variables hold one single call and its results;  *)
(* the others are the server: the stored visits, the clock, and for every  *)
(* request its handler, its position in the handler, its inputs, its       *)
(* record, its local visits list and its response.  saved and             *)
(* storageFailed only record what happened: whether the request's          *)
(* save_visits returned having written its record, and whether a storage   *)
(* call of the request raised.                                             *)
(***************************************************************************)
VARIABLES call, parsed, retClick, retImage,
          store, clock, handler, pc, req, rec, visits, resp, saved, storageFailed

pureVars == <<call, parsed, retClick, retImage>>

serverVars == <<store, clock, handler, pc, req, rec, visits, resp, saved, storageFailed>>

vars == <<pureVars, serverVars>>

NumReqs == 2

Reqs == 1..NumReqs

NotRun == [t |-> "NotRun"]

NoRecord == [t |-> "NoRecord"]

NoRequest == [t |-> "NoRequest"]

Range(s) == {s[i] : i \in 1..Len(s)}

ServerIdle ==
    /\ store = <<>>
    /\ clock = 1
    /\ handler = [r \in Reqs |-> "none"]
    /\ pc = [r \in Reqs |-> "idle"]
    /\ req = [r \in Reqs |-> NoRequest]
    /\ rec = [r \in Reqs |-> NoRecord]
    /\ visits = [r \in Reqs |-> <<>>]
    /\ resp = [r \in Reqs |-> NoResponse]
    /\ saved = [r \in Reqs |-> FALSE]
    /\ storageFailed = [r \in Reqs |-> FALSE]

NoCall == call = NotRun /\ parsed = NotRun /\ retClick = NotRun /\ retImage = NotRun

(***************************************************************************)
(* Single calls.                                                           *)
(***************************************************************************)
InitCall ==
    /\ call \in Calls
    /\ parsed = NotRun /\ retClick = NotRun /\ retImage = NotRun
    /\ ServerIdle

RunParseUserAgent ==
    /\ call # NotRun /\ parsed = NotRun
    /\ parsed' = _parse_user_agent(call.rq.ua)
    /\ UNCHANGED <<call, retClick, retImage, serverVars>>

RunTrackClick ==
    /\ call # NotRun /\ retClick = NotRun
    /\ retClick' = track_click(call.rq, call.geo, call.now, call.stored)
    /\ UNCHANGED <<call, parsed, retImage, serverVars>>

RunImageTracker ==
    /\ call # NotRun /\ retImage = NotRun
    /\ retImage' = image_tracker(call.rq, call.geo, call.now, call.stored)
    /\ UNCHANGED <<call, parsed, retClick, serverVars>>

NextCall == RunParseUserAgent \/ RunTrackClick \/ RunImageTracker

SpecCall == InitCall /\ [][NextCall]_vars

(***************************************************************************)
(* The server: requests handled concurrently, a step being one of          *)
(* lines 67-103 (everything up to the record), load_visits, append and     *)
(* save_visits, and the response.                                          *)
(***************************************************************************)
\* geo_lookup(ip, ip_api): nothing for an absent ip, else nothing or a dict
geo_lookup(ip) == IF ip = PyNone THEN {PyNone} ELSE {PyNone, GeoParis}

RequestInputs ==
    {[PlainRequest EXCEPT !.arg = a] : a \in ArgInputs}
        \cup {[PlainRequest EXCEPT !.remote_addr = PyNone]}

\* The arrivals explored: a request and the outcome of its lookup.  The lookup
\* gives nothing for the request without address and for the one with the
\* malformed parameter, and a dict for the others.
Arrivals ==
    {x \in RequestInputs \X {PyNone, GeoParis} :
        /\ x[2] \in geo_lookup(resolve_ip(x[1].xff, x[1].remote_addr))
        /\ x[2] = PyNone <=> (x[1].remote_addr = PyNone \/ x[1].arg = PyStr(<<":", ":">>))}

\* requests are numbered in the order they arrive
Arrived(r) == pc[r] = "idle" /\ (IF r = 1 THEN TRUE ELSE pc[r - 1] # "idle")

\* An exception of load_visits or save_visits is not caught: the request fails.
after_storage_error_Swallowed(p) == IF p = "recorded" THEN "loaded" ELSE "saved"

after_storage_error(p) == "failed"

\* The response is built after save_visits has returned.
response_ready_BeforeSave(p) == p = "loaded"

response_ready(p) == p = "saved"

Begin(r, h, rq, g, a) ==
    /\ handler' = [handler EXCEPT ![r] = h]
    /\ req' = [req EXCEPT ![r] = [rq |-> rq, geo |-> g]]
    /\ rec' = [rec EXCEPT ![r] = IF a.t = "ok" THEN a.v ELSE NoRecord]
    /\ pc' = [pc EXCEPT ![r] = IF a.t = "ok" THEN "recorded" ELSE "failed"]
    /\ clock' = clock + 1
    /\ UNCHANGED <<store, visits, resp, saved, storageFailed, pureVars>>

\* track_click lines 67-103
TrackClickRecord(r) ==
    /\ Arrived(r)
    /\ \E x \in Arrivals :
         Begin(r, "track_click", x[1], x[2], track_click_record(x[1], x[2], clock))

\* image_tracker lines 130-164
ImageTrackerRecord(r) ==
    /\ Arrived(r)
    /\ \E x \in Arrivals :
         Begin(r, "image_tracker", x[1], x[2], image_tracker_record(x[1], x[2], clock))

Load(r) ==
    /\ pc[r] = "recorded"
    /\ visits' = [visits EXCEPT ![r] = load_visits(store)]
    /\ pc' = [pc EXCEPT ![r] = "loaded"]
    /\ UNCHANGED <<store, clock, handler, req, rec, resp, saved, storageFailed, pureVars>>

Save(r) ==
    /\ pc[r] = "loaded"
    /\ LET written == list_append(visits[r], rec[r])
       IN  /\ visits' = [visits EXCEPT ![r] = written]
           /\ store' = save_visits(store, written)
           /\ saved' = [saved EXCEPT ![r] = rec[r] \in Range(written)]
    /\ pc' = [pc EXCEPT ![r] = "saved"]
    /\ UNCHANGED <<clock, handler, req, rec, resp, storageFailed, pureVars>>

\* track_click line 105
TrackClickLoad(r) == handler[r] = "track_click" /\ Load(r)

\* track_click lines 106-107
TrackClickSave(r) == handler[r] = "track_click" /\ Save(r)

\* track_click lines 109-110
TrackClickRespond(r) ==
    /\ handler[r] = "track_click" /\ response_ready(pc[r])
    /\ resp' = [resp EXCEPT ![r] = track_click_response(req[r].rq)]
    /\ pc' = [pc EXCEPT ![r] = "done"]
    /\ UNCHANGED <<store, clock, handler, req, rec, visits, saved, storageFailed, pureVars>>

\* image_tracker line 166
ImageTrackerLoad(r) == handler[r] = "image_tracker" /\ Load(r)

\* image_tracker lines 167-168
ImageTrackerSave(r) == handler[r] = "image_tracker" /\ Save(r)

\* image_tracker lines 170-171
ImageTrackerRespond(r) ==
    /\ handler[r] = "image_tracker" /\ response_ready(pc[r])
    /\ resp' = [resp EXCEPT ![r] = image_tracker_response(req[r].rq)]
    /\ pc' = [pc EXCEPT ![r] = "done"]
    /\ UNCHANGED <<store, clock, handler, req, rec, visits, saved, storageFailed, pureVars>>

\* load_visits or save_visits raises in either handler
StorageError(r) ==
    /\ pc[r] \in {"recorded", "loaded"}
    /\ pc' = [pc EXCEPT ![r] = after_storage_error(pc[r])]
    /\ storageFailed' = [storageFailed EXCEPT ![r] = TRUE]
    /\ store' = storage_after_error(store)
    /\ UNCHANGED <<clock, handler, req, rec, visits, resp, saved, pureVars>>

Step(r) ==
    \/ TrackClickRecord(r)
    \/ TrackClickLoad(r)
    \/ TrackClickSave(r)
    \/ TrackClickRespond(r)
    \/ ImageTrackerRecord(r)
    \/ ImageTrackerLoad(r)
    \/ ImageTrackerSave(r)
    \/ ImageTrackerRespond(r)
    \/ StorageError(r)

Init == NoCall /\ ServerIdle

Next == \E r \in Reqs : Step(r)

Spec == Init /\ [][Next]_vars

(***************************************************************************)
(* Serialized access: a request takes a step only while no other request   *)
(* is between its first step and its end.                                  *)
(***************************************************************************)
InFlight(r) == pc[r] \in {"recorded", "loaded", "saved"}

Alone(r) == \A q \in Reqs \ {r} : ~InFlight(q)

NextSerial ==
    \E r \in Reqs :
        \/ Alone(r) /\ TrackClickRecord(r)
        \/ Alone(r) /\ TrackClickLoad(r)
        \/ Alone(r) /\ TrackClickSave(r)
        \/ Alone(r) /\ TrackClickRespond(r)
        \/ Alone(r) /\ ImageTrackerRecord(r)
        \/ Alone(r) /\ ImageTrackerLoad(r)
        \/ Alone(r) /\ ImageTrackerSave(r)
        \/ Alone(r) /\ ImageTrackerRespond(r)
        \/ Alone(r) /\ StorageError(r)

SpecSerial == Init /\ [][NextSerial]_vars

(***************************************************************************)
(* Properties.                                                             *)
(***************************************************************************)
Quiescent == \A r \in Reqs : pc[r] \in {"done", "failed"}

\* C1: under concurrent requests, once every request has ended, the record of
\* each request whose save_visits returned is in the stored collection.
C1_NoRecordLost == Quiescent => \A r \in Reqs : saved[r] => rec[r] \in Range(store)

\* C2: with serialized access, starting from the empty collection, every step
\* either leaves the stored collection as it is or appends to it the record of
\* the one request whose save returns in that step, so what was stored stays
\* as a prefix; the collection holds one record per request that saved, and
\* they are in call order (the order of their clock readings).
C2_AppendOnlySerial ==
    [][/\ store' # store =>
             \E r \in Reqs : /\ saved'[r] /\ ~saved[r]
                             /\ \A q \in Reqs \ {r} : saved'[q] = saved[q]
                             /\ store' = Append(store, rec[r])
       /\ Len(store') = Cardinality({r \in Reqs : saved'[r]})
       /\ \A r \in Reqs : saved'[r] => rec'[r] \in Range(store')
       /\ \A i \in 1..Len(store') : \A j \in 1..Len(store') :
             i < j => store'[i].time < store'[j].time]_vars

C2_Witness ==
    /\ Len(store) >= 2
    /\ \E r \in Reqs : \E q \in Reqs :
          /\ handler[r] = "track_click" /\ handler[q] = "image_tracker"
          /\ rec[r] \in Range(store) /\ rec[q] \in Range(store)

\* a valid finite numeric value: an int or a finite float, no bool and no text
IsFiniteNumber(x) == x.t = "int" \/ (x.t = "float" /\ x.k = "fin")

MapsUrlIffNumeric(record) ==
    record.google_maps_url # PyNone
        <=> (IsFiniteNumber(record.lat) /\ IsFiniteNumber(record.lon))

\* C3: in the record of either handler, google_maps_url is set if and only if
\* lat and lon are both valid finite numeric values.
C3_MapsUrlIffBothNumeric ==
    /\ retClick # NotRun /\ retClick.t = "ok" => MapsUrlIffNumeric(retClick.record)
    /\ retImage # NotRun /\ retImage.t = "ok" => MapsUrlIffNumeric(retImage.record)

\* C4: a request has a response only if its save_visits has returned, having
\* written its record, whatever the next / src parameter is.
C4_RecordedBeforeResponse ==
    \A r \in Reqs :
        /\ resp[r] # NoResponse => saved[r] /\ pc[r] = "done"
        /\ pc[r] = "done" =>
              resp[r] = (IF handler[r] = "track_click"
                         THEN track_click_response(req[r].rq)
                         ELSE image_tracker_response(req[r].rq))

C4_Witness ==
    \E r \in Reqs : \E q \in Reqs :
        /\ pc[r] = "done" /\ handler[r] = "track_click" /\ req[r].rq.arg = PyNone
        /\ resp[r].kind = "redirect"
        /\ pc[q] = "done" /\ handler[q] = "image_tracker"
        /\ req[q].rq.arg = PyStr(<<":", ":">>) /\ resp[q].kind = "render"

GeoFieldsNull(record) ==
    \A f \in {"country", "region", "city", "isp", "lat", "lon", "google_maps_url"} :
        record[f] = PyNone

\* C5: a request whose lookup gave nothing is not ended by that: it fails only
\* on a storage error, its record has every geographic field and the map URL
\* null, and when it is done its record was written and it has its response.
C5_LookupFailureDegrades ==
    \A r \in Reqs :
        (handler[r] # "none" /\ req[r].geo = PyNone) =>
            /\ pc[r] = "failed" => storageFailed[r]
            /\ pc[r] # "failed" => rec[r] # NoRecord /\ GeoFieldsNull(rec[r])
            /\ pc[r] = "done" => saved[r] /\ resp[r] # NoResponse

C5_Witness ==
    \E r \in Reqs : \E q \in Reqs :
        /\ pc[r] = "done" /\ req[r].geo = PyNone /\ rec[r].ip = PyNone
        /\ resp[r] # NoResponse
        /\ pc[q] = "done" /\ req[q].geo = PyNone /\ rec[q].ip # PyNone
        /\ rec[q] \in Range(store)

FirstEntryTrimmed(s) == Strip(SplitFirst(s))

ExpectedIp(rq) ==
    IF rq.xff # PyNone THEN PyStr(FirstEntryTrimmed(rq.xff.s)) ELSE rq.remote_addr

\* C7: the ip of a record is the first comma-separated entry of
\* X-Forwarded-For, trimmed, when the header is present, else the remote
\* address; it is null only when both are absent.
C7_ClientIp ==
    \A ret \in {retClick, retImage} :
        (ret # NotRun /\ ret.t = "ok") =>
            /\ ret.record.ip = ExpectedIp(call.rq)
            /\ ret.record.ip = PyNone
                  <=> (call.rq.xff = PyNone /\ call.rq.remote_addr = PyNone)

\* pat occurs in s in some letter case (pat is in lower case)
ContainsCI(s, pat) ==
    \E i \in 1..(Len(s) - Len(pat) + 1) :
        \A j \in 1..Len(pat) : ToLower(s[i + j - 1]) = pat[j]

FirstMatchBrowser(s) ==
    IF ContainsCI(s, s_edg) THEN "Edge"
    ELSE IF ContainsCI(s, s_opr) \/ ContainsCI(s, s_opera) THEN "Opera"
    ELSE IF ContainsCI(s, s_chrome) /\ ContainsCI(s, s_safari) /\ ~ContainsCI(s, s_edge)
    THEN "Chrome"
    ELSE IF ContainsCI(s, s_firefox) THEN "Firefox"
    ELSE IF ContainsCI(s, s_safari) /\ ~ContainsCI(s, s_chrome) THEN "Safari"
    ELSE "Other"

\* C8: for a non-empty user agent the browser is the first match of the
\* ordered rules, matched in any letter case; with "edg" in it, it is Edge.
C8_BrowserFirstMatch ==
    (parsed # NotRun /\ Truthy(call.rq.ua)) =>
        /\ parsed.browser = FirstMatchBrowser(call.rq.ua.s)
        /\ ContainsCI(call.rq.ua.s, s_edg) => parsed.browser = "Edge"

C8_Witness ==
    /\ parsed # NotRun /\ Truthy(call.rq.ua)
    /\ Contains(call.rq.ua.s, f_Edg)
    /\ ContainsCI(call.rq.ua.s, s_chrome) /\ ContainsCI(call.rq.ua.s, s_safari)
    /\ parsed.browser = "Edge"

BrowserSet == {"Edge", "Opera", "Chrome", "Firefox", "Safari", "Other", "Unknown"}

OsSet == {"Windows", "Android", "iOS", "macOS", "Linux", "Other", "Unknown"}

\* C9: the classifier's browser and os are in the closed sets, they are
\* Unknown / Unknown exactly for an absent or empty user agent, and the
\* records of both handlers carry values of those sets.
C9_ClosedCategories ==
    /\ parsed # NotRun =>
          /\ parsed.browser \in BrowserSet /\ parsed.os \in OsSet
          /\ parsed = [browser |-> "Unknown", os |-> "Unknown"]
                <=> (call.rq.ua = PyNone \/ call.rq.ua = PyStr(<<>>))
          /\ (parsed.browser = "Unknown" \/ parsed.os = "Unknown")
                => (call.rq.ua = PyNone \/ call.rq.ua = PyStr(<<>>))
    /\ \A ret \in {retClick, retImage} :
          (ret # NotRun /\ ret.t = "ok") =>
              /\ ret.record.browser \in BrowserSet /\ ret.record.os \in OsSet
              /\ parsed # NotRun =>
                    /\ ret.record.browser = parsed.browser
                    /\ ret.record.os = parsed.os

C9_Witness ==
    /\ call # NotRun /\ call.rq.ua = PyStr(<<>>)
    /\ parsed = [browser |-> "Unknown", os |-> "Unknown"]
    /\ retClick # NotRun /\ retClick.t = "ok" /\ retClick.record.browser = "Unknown"

\* C10: for the same request, lookup outcome, clock reading and stored
\* collection, track_click and image_tracker build the same record and leave
\* the same collection; their responses differ.
C10_HandlersRecordAlike ==
    (retClick # NotRun /\ retImage # NotRun) =>
        /\ retClick.t = retImage.t
        /\ retClick.stored = retImage.stored
        /\ retClick.t = "ok" =>
              /\ retClick.record = retImage.record
              /\ retClick.stored = Append(call.stored, retClick.record)
              /\ retClick.response.kind = "redirect"
              /\ retImage.response.kind = "render"

C10_Witness ==
    /\ retClick # NotRun /\ retImage # NotRun /\ retClick.t = "ok"
    /\ Len(retClick.stored) = 2
    /\ retClick.record.google_maps_url # PyNone
    /\ retClick.record = retImage.record
====
